---- MODULE Spec2Model ----
(***************************************************************************)
(* RandomDict (src/randomdict.py): a MutableMapping that keeps a dict      *)
(* _keys (key -> slot number), a list _values (slot -> (key, value)) and   *)
(* an integer last_index, and draws random keys by indexing _values.       *)
(*                                                                         *)
(* Python objects are references.  The model keeps a heap of dict objects  *)
(* and a heap of list objects; a RandomDict instance is a record of two    *)
(* references and last_index, so that aliasing between an instance and its *)
(* copy is something the model can express.                                *)
(*                                                                         *)
(* A Python dict is insertion ordered: it is modelled as a sequence of     *)
(* <<key, item>> pairs with pairwise distinct keys.  A Python list is a    *)
(* sequence; Python position i is TLA+ position i + 1.                     *)
(***************************************************************************)
EXTENDS Integers, Sequences, FiniteSets

\* ------------------------------------------------------------------ bounds
\* Number of distinct keys the callers use.
NumKeys == 3
\* Number of distinct values the callers use.
NumVals == 2
\* Longest pair sequence handed to update() / the constructor in one call.
MaxSrcLen == 2
\* Number of operations of a run of SpecCopy (two instances side by side).
MaxCopyOps == 4
MaxCountOps == 4
MaxClearOps == 2
MaxRaceOps == 2

Keys == 1..NumKeys
Values == 1..NumVals
\* A key that cannot be hashed (a list, a dict, a set), and what hash(key),
\* which every lookup in the Index dict starts with, makes of a key.
Unhashable == 0
AllKeys == Keys \cup {Unhashable}
Hashable(key) == key # Unhashable
Names == {"c1", "c2"}
Refs == {1, 2}

\* Return values: None is <<>>, a key or a value is <<x>>, an item is <<k, v>>.
None == <<>>
Ok(h, ret) == [h |-> h, ret |-> ret, err |-> "none"]
Raise(h, e) == [h |-> h, ret |-> None, err |-> e]

\* ------------------------------------------------------- Python dict, list
DictHas(d, k) == \E j \in 1..Len(d) : d[j][1] = k
DictPos(d, k) == CHOOSE j \in 1..Len(d) : d[j][1] = k
\* d.get(k, default)
DictGet(d, k, default) == IF DictHas(d, k) THEN d[DictPos(d, k)][2] ELSE default
\* d[k] = x : an existing key keeps its place in the enumeration, a new key is last
DictSet(d, k, x) ==
    IF DictHas(d, k) THEN [d EXCEPT ![DictPos(d, k)] = <<k, x>>]
                     ELSE Append(d, <<k, x>>)
\* del d[k], for a key that is present
DictDel(d, k) ==
    LET p == DictPos(d, k) IN SubSeq(d, 1, p - 1) \o SubSeq(d, p + 1, Len(d))
DictKeys(d) == {d[j][1] : j \in 1..Len(d)}
\* iter(d): the keys in the dict's enumeration order
DictIter(d) == [j \in 1..Len(d) |-> d[j][1]]

\* l[i] is defined for -len(l) <= i < len(l); a negative i counts from the end
ListHas(l, i) == i \in (0 - Len(l))..(Len(l) - 1)
ListPos(l, i) == IF i < 0 THEN Len(l) + i + 1 ELSE i + 1
ListGet(l, i) == l[ListPos(l, i)]
ListSet(l, i, x) == [l EXCEPT ![ListPos(l, i)] = x]

\* ------------------------------------------------------------------- state
VARIABLES
    dicts,    \* heap: reference -> dict object (the _keys dicts)
    lists,    \* heap: reference -> list object (the _values lists)
    rd,       \* instance name -> [keys, values, last_index]; DOMAIN rd = live instances
    result,   \* outcome of the last call: [ret, err]
    plain,    \* instance name -> a standard dict driven by the same calls
    presult,  \* outcome of the last call on the standard dict
    nops,     \* operations performed (the depth-bounded specifications)
    hist,     \* what a caller has counted: keys ever inserted, insertions, removals
    pc,       \* position of the call in progress (the step-wise specifications)
    reg,      \* local variables of the call in progress
    locking   \* whether the callers wrap every operation in one exclusive lock

vars == <<dicts, lists, rd, result, plain, presult, nops, hist, pc, reg, locking>>
\* What the one-call-at-a-time specifications leave alone.
aux == <<nops, hist, pc, reg, locking>>

\* The program state the methods act on.
Cur == [dicts |-> dicts, lists |-> lists, rd |-> rd]

KeysOf(h, c) == h.dicts[h.rd[c].keys]
ValuesOf(h, c) == h.lists[h.rd[c].values]
LastIndex(h, c) == h.rd[c].last_index

WithKeys(h, c, d) == [h EXCEPT !.dicts[h.rd[c].keys] = d]
WithValues(h, c, l) == [h EXCEPT !.lists[h.rd[c].values] = l]
WithLastIndex(h, c, n) == [h EXCEPT !.rd[c].last_index = n]

\* ------------------------------------------------------ RandomDict methods
\* __len__
LenOfOffByOne(h, c) == LastIndex(h, c)
LenOf(h, c) == LastIndex(h, c) + 1

\* __setitem__: the slot chosen for a new key
NewSlotNoIncrement(h, c) == LastIndex(h, c)
NewSlot(h, c) == LastIndex(h, c) + 1

\* __setitem__ without its branch for a key already present
SetItemAlwaysAppend(h, c, key, val) ==
    LET j  == NewSlot(h, c)
        h1 == WithLastIndex(h, c, j)
        h2 == WithValues(h1, c, Append(ValuesOf(h1, c), <<key, val>>))
    IN Ok(WithKeys(h2, c, DictSet(KeysOf(h2, c), key, j)), None)

\* __setitem__ placing a new key in slot 0 and shifting every entry up
SetItemInsertFront(h, c, key, val) ==
    LET d == KeysOf(h, c)
        i == DictGet(d, key, -1)
    IN
    IF i > -1
    THEN Ok(WithValues(h, c, ListSet(ValuesOf(h, c), i, <<key, val>>)), None)
    ELSE LET h1 == WithLastIndex(h, c, LastIndex(h, c) + 1)
             h2 == WithValues(h1, c, <<(<<key, val>>)>> \o ValuesOf(h1, c))
             up == [j \in 1..Len(d) |-> <<d[j][1], d[j][2] + 1>>]
         IN Ok(WithKeys(h2, c, Append(up, <<key, 0>>)), None)

\* __setitem__ appending to the slots ahead of the Index lookup
SetItemAppendFirst(h, c, key, val) ==
    LET j  == NewSlot(h, c)
        h1 == WithLastIndex(h, c, j)
        h2 == WithValues(h1, c, Append(ValuesOf(h1, c), <<key, val>>))
    IN IF ~Hashable(key) THEN Raise(h2, "TypeError")
       ELSE Ok(WithKeys(h2, c, DictSet(KeysOf(h2, c), key, j)), None)

\* __setitem__: self._keys.get(key, -1) raises TypeError for an unhashable key
SetItem(h, c, key, val) ==
    IF ~Hashable(key) THEN Raise(h, "TypeError") ELSE
    LET i == DictGet(KeysOf(h, c), key, -1) IN
    IF i > -1
    THEN IF ListHas(ValuesOf(h, c), i)
         THEN Ok(WithValues(h, c, ListSet(ValuesOf(h, c), i, <<key, val>>)), None)
         ELSE Raise(h, "IndexError")
    ELSE LET j  == NewSlot(h, c)
             h1 == WithLastIndex(h, c, j)
             h2 == WithValues(h1, c, Append(ValuesOf(h1, c), <<key, val>>))
             h3 == WithKeys(h2, c, DictSet(KeysOf(h2, c), key, j))
         IN Ok(h3, None)

\* __delitem__: whether the popped last entry is moved into slot i
MustRelocateNever(h, c, i) == FALSE
MustRelocate(h, c, i) == i # LastIndex(h, c)

\* __delitem__: self._keys[move_key] = i
MoveIndexForgotten(d, move_key, i) == d
MoveIndex(d, move_key, i) == DictSet(d, move_key, i)

\* __delitem__, once self._keys[key] has found the key
DelItemPresent(h, c, key) ==
    LET i == DictGet(KeysOf(h, c), key, -1)
        l == ValuesOf(h, c)
    IN
    IF Len(l) = 0 THEN Raise(h, "IndexError")
    ELSE
    LET move == l[Len(l)]
        h1   == WithValues(h, c, SubSeq(l, 1, Len(l) - 1))
    IN
    IF MustRelocate(h1, c, i)
    THEN IF ListHas(ValuesOf(h1, c), i)
         THEN LET h2 == WithValues(h1, c, ListSet(ValuesOf(h1, c), i, move))
                  h3 == WithKeys(h2, c, MoveIndex(KeysOf(h2, c), move[1], i))
                  h4 == WithLastIndex(h3, c, LastIndex(h3, c) - 1)
              IN Ok(WithKeys(h4, c, DictDel(KeysOf(h4, c), key)), None)
         ELSE Raise(h1, "IndexError")
    ELSE LET h4 == WithLastIndex(h1, c, LastIndex(h1, c) - 1)
         IN Ok(WithKeys(h4, c, DictDel(KeysOf(h4, c), key)), None)

\* __delitem__ closing the gap by shifting the later entries down one slot
DelItemShiftDown(h, c, key) ==
    IF ~DictHas(KeysOf(h, c), key) THEN Raise(h, "KeyError")
    ELSE LET d    == DictDel(KeysOf(h, c), key)
             i    == DictGet(KeysOf(h, c), key, -1)
             l    == ValuesOf(h, c)
             down == [j \in 1..Len(d) |-> <<d[j][1], IF d[j][2] > i THEN d[j][2] - 1 ELSE d[j][2]>>]
             h1   == WithValues(h, c, SubSeq(l, 1, i) \o SubSeq(l, i + 2, Len(l)))
             h2   == WithLastIndex(h1, c, LastIndex(h1, c) - 1)
         IN Ok(WithKeys(h2, c, down), None)

\* __delitem__ with the pop ahead of the lookup
DelItemPopFirst(h, c, key) ==
    IF ~DictHas(KeysOf(h, c), key)
    THEN Raise(WithValues(h, c, SubSeq(ValuesOf(h, c), 1, Len(ValuesOf(h, c)) - 1)), "KeyError")
    ELSE DelItemPresent(h, c, key)

\* __delitem__: self._keys[key] raises TypeError for an unhashable key and
\* KeyError for an absent one
DelItem(h, c, key) ==
    IF ~Hashable(key) THEN Raise(h, "TypeError")
    ELSE IF ~DictHas(KeysOf(h, c), key) THEN Raise(h, "KeyError")
    ELSE DelItemPresent(h, c, key)

\* __getitem__ reading the key field of the slot
GetItemKeyField(h, c, key) ==
    IF ~DictHas(KeysOf(h, c), key) THEN Raise(h, "KeyError")
    ELSE Ok(h, <<key>>)

\* __getitem__ with self._keys.get(key, -1) in place of the membership test
GetItemDefaultSlot(h, c, key) ==
    LET i == DictGet(KeysOf(h, c), key, -1) IN
    IF ListHas(ValuesOf(h, c), i) THEN Ok(h, <<ListGet(ValuesOf(h, c), i)[2]>>)
    ELSE Raise(h, "IndexError")

\* __getitem__: key in self._keys raises TypeError for an unhashable key
GetItem(h, c, key) ==
    IF ~Hashable(key) THEN Raise(h, "TypeError")
    ELSE IF ~DictHas(KeysOf(h, c), key) THEN Raise(h, "KeyError")
    ELSE LET i == DictGet(KeysOf(h, c), key, -1) IN
         IF ListHas(ValuesOf(h, c), i)
         THEN Ok(h, <<ListGet(ValuesOf(h, c), i)[2]>>)
         ELSE Raise(h, "IndexError")

\* __iter__
IterSlotNumbers(h, c) == [j \in 1..Len(KeysOf(h, c)) |-> KeysOf(h, c)[j][2]]
IterSlotOrder(h, c) == [j \in 1..Len(ValuesOf(h, c)) |-> ValuesOf(h, c)[j][1]]
Iter(h, c) == DictIter(KeysOf(h, c))

\* random_key: the values random.randint(0, self.last_index) can return
RandintRangeToLen(h, c) == 0..(LastIndex(h, c) + 1)
RandintRange(h, c) == 0..LastIndex(h, c)

\* random_key without its emptiness test
RandomKeyUnguarded(h, c, i) ==
    IF LastIndex(h, c) < 0 THEN Raise(h, "ValueError")
    ELSE IF ListHas(ValuesOf(h, c), i)
         THEN Ok(h, <<ListGet(ValuesOf(h, c), i)[1]>>)
         ELSE Raise(h, "IndexError")

\* random_key, for the drawn integer i
RandomKey(h, c, i) ==
    IF LenOf(h, c) = 0 THEN Raise(h, "KeyError")
    ELSE IF ListHas(ValuesOf(h, c), i)
         THEN Ok(h, <<ListGet(ValuesOf(h, c), i)[1]>>)
         ELSE Raise(h, "IndexError")

\* random_value
RandomValue(h, c, i) ==
    LET r == RandomKey(h, c, i) IN
    IF r.err # "none" THEN r ELSE GetItem(h, c, r.ret[1])

\* random_item
RandomItem(h, c, i) ==
    LET r == RandomKey(h, c, i) IN
    IF r.err # "none" THEN r
    ELSE LET g == GetItem(h, c, r.ret[1]) IN
         IF g.err # "none" THEN g ELSE Ok(h, <<r.ret[1], g.ret[1]>>)


\* ------------------------------------------- methods inherited from MutableMapping
\* (class RandomDict(MutableMapping): get, pop, popitem, clear, update and
\* setdefault are the mixin methods, written in terms of __getitem__,
\* __setitem__, __delitem__ and __iter__.)

\* get(key, default): try self[key], except KeyError return default
Get(h, c, key, default) ==
    LET r == GetItem(h, c, key) IN
    IF r.err = "KeyError" THEN Ok(h, <<default>>) ELSE r

\* pop(key): value = self[key]; del self[key]; return value
Pop(h, c, key) ==
    LET r == GetItem(h, c, key) IN
    IF r.err # "none" THEN r
    ELSE LET d == DelItem(h, c, key) IN
         IF d.err # "none" THEN d ELSE Ok(d.h, r.ret)

\* pop(key, default): as pop(key), a KeyError of self[key] returns default
PopDefault(h, c, key, default) ==
    LET r == GetItem(h, c, key) IN
    IF r.err = "KeyError" THEN Ok(h, <<default>>) ELSE Pop(h, c, key)

\* popitem(): key = next(iter(self)), StopIteration becomes KeyError;
\* value = self[key]; del self[key]; return key, value
PopItem(h, c) ==
    LET it == Iter(h, c) IN
    IF Len(it) = 0 THEN Raise(h, "KeyError")
    ELSE LET key == it[1]
             r   == GetItem(h, c, key)
         IN IF r.err # "none" THEN r
            ELSE LET d == DelItem(h, c, key) IN
                 IF d.err # "none" THEN d ELSE Ok(d.h, <<key, r.ret[1]>>)

\* clear(): while True: self.popitem(), until KeyError
RECURSIVE Clear(_, _)
Clear(h, c) ==
    LET r == PopItem(h, c) IN
    IF r.err = "KeyError" THEN Ok(r.h, None)
    ELSE IF r.err # "none" THEN r
    ELSE Clear(r.h, c)

\* for key, value in pairs: self[key] = value
RECURSIVE SetAll(_, _, _)
SetAll(h, c, pairs) ==
    IF Len(pairs) = 0 THEN Ok(h, None)
    ELSE LET r == SetItem(h, c, pairs[1][1], pairs[1][2]) IN
         IF r.err # "none" THEN r ELSE SetAll(r.h, c, Tail(pairs))

\* update applying the keyword bindings before the pairs of other
UpdateKwdsFirst(h, c, other, kwds) ==
    LET r == SetAll(h, c, kwds) IN
    IF r.err # "none" THEN r ELSE SetAll(r.h, c, other)

\* update(other, **kwds): the pairs of other in order, then those of kwds
Update(h, c, other, kwds) ==
    LET r == SetAll(h, c, other) IN
    IF r.err # "none" THEN r ELSE SetAll(r.h, c, kwds)

\* setdefault(key, default): try return self[key], except KeyError:
\* self[key] = default; return default
SetDefault(h, c, key, default) ==
    LET r == GetItem(h, c, key) IN
    IF r.err = "KeyError"
    THEN LET s == SetItem(h, c, key, default) IN
         IF s.err # "none" THEN s ELSE Ok(s.h, <<default>>)
    ELSE r

\* items(): for key in self: yield (key, self[key]); the outcomes of self[key]
ItemLookups(h, c) == [j \in 1..Len(Iter(h, c)) |-> GetItem(h, c, Iter(h, c)[j])]
\* list(self.items()), when every self[key] returned
Items(h, c) == [j \in 1..Len(Iter(h, c)) |-> <<Iter(h, c)[j], ItemLookups(h, c)[j].ret[1]>>]
\* list(self.values())
ValuesList(h, c) == [j \in 1..Len(Iter(h, c)) |-> ItemLookups(h, c)[j].ret[1]]
\* the exception the first failing self[key] of an iteration over items raises
ItemsErr(h, c) ==
    LET bad == {j \in 1..Len(Iter(h, c)) : ItemLookups(h, c)[j].err # "none"} IN
    IF bad = {} THEN "none"
    ELSE ItemLookups(h, c)[CHOOSE j \in bad : \A j2 \in bad : j <= j2].err

\* dict(pairs): a standard dict built from the pairs in order
RECURSIVE DictOf(_, _)
DictOf(d, pairs) ==
    IF Len(pairs) = 0 THEN d
    ELSE DictOf(DictSet(d, pairs[1][1], pairs[1][2]), Tail(pairs))
\* d1 == d2 for standard dicts: the same keys with equal values, in any order
DictEq(d1, d2) == {d1[j] : j \in 1..Len(d1)} = {d2[j] : j \in 1..Len(d2)}

\* a == b (Mapping.__eq__): dict(self.items()) == dict(other.items());
\* True is <<1>>, False is <<0>>
Eq(h, a, b) ==
    IF ItemsErr(h, a) # "none" THEN Raise(h, ItemsErr(h, a))
    ELSE IF ItemsErr(h, b) # "none" THEN Raise(h, ItemsErr(h, b))
    ELSE Ok(h, <<IF DictEq(DictOf(<<>>, Items(h, a)), DictOf(<<>>, Items(h, b))) THEN 1 ELSE 0>>)

\* --------------------------------------------------- construction and copy
\* References held by the live instances other than c.
DictRefsHeld(h, c) == {h.rd[n].keys : n \in DOMAIN h.rd \ {c}}
ListRefsHeld(h, c) == {h.rd[n].values : n \in DOMAIN h.rd \ {c}}

\* Reference counting: an object no live instance refers to is freed.
Collect(h) ==
    [h EXCEPT !.dicts = [r \in Refs |-> IF r \in DictRefsHeld(h, "") THEN h.dicts[r] ELSE <<>>],
              !.lists = [r \in Refs |-> IF r \in ListRefsHeld(h, "") THEN h.lists[r] ELSE <<>>]]

\* Binding the name c to a new instance object.
Bind(h, c, obj) ==
    [h EXCEPT !.rd = [n \in DOMAIN h.rd \cup {c} |-> IF n = c THEN obj ELSE h.rd[n]]]

\* __init__, before its update call: a new empty dict, a new empty list, -1.
\* The new objects live at references no other instance holds.
New(h, c) ==
    LET kr == CHOOSE r \in Refs : r \notin DictRefsHeld(h, c)
        vr == CHOOSE r \in Refs : r \notin ListRefsHeld(h, c)
        h1 == Bind(h, c, [keys |-> kr, values |-> vr, last_index |-> -1])
    IN WithValues(WithKeys(h1, c, <<>>), c, <<>>)

\* RandomDict(other, **kwargs), bound to the name c
Construct(h, c, other, kwds) ==
    LET r == Update(New(h, c), c, other, kwds) IN
    [r EXCEPT !.h = Collect(r.h)]

\* copy: the dict object new_rd._keys refers to
CopyKeysRef(h, src, dst) == CHOOSE r \in Refs : r \notin DictRefsHeld(h, dst) \cup {h.rd[src].keys}
\* copy: the list object new_rd._values refers to
CopyValuesRefShared(h, src, dst) == h.rd[src].values
CopyValuesRef(h, src, dst) == CHOOSE r \in Refs : r \notin ListRefsHeld(h, dst) \cup {h.rd[src].values}

\* dst = src.copy()
Copy(h, src, dst) ==
    LET kr  == CopyKeysRef(h, src, dst)
        vr  == CopyValuesRef(h, src, dst)
        obj == [keys |-> kr, values |-> vr, last_index |-> LastIndex(h, src)]
        h1  == [h EXCEPT !.dicts[kr] = KeysOf(h, src), !.lists[vr] = ValuesOf(h, src)]
    IN Ok(Collect(Bind(h1, dst, obj)), None)

\* fromkeys(keys, value), bound to the name c
RECURSIVE FromKeysLoop(_, _, _, _)
FromKeysLoop(h, c, keys, value) ==
    IF Len(keys) = 0 THEN Ok(h, None)
    ELSE LET r == SetItem(h, c, keys[1], value) IN
         IF r.err # "none" THEN r ELSE FromKeysLoop(r.h, c, Tail(keys), value)

FromKeys(h, c, keys, value) ==
    LET r == FromKeysLoop(New(h, c), c, keys, value) IN
    [r EXCEPT !.h = Collect(r.h)]


\* ------------------------------------------ the standard dict run alongside
\* A standard dict is the same insertion-ordered sequence, of <<key, value>>.
PlainOk(d, ret) == [d |-> d, ret |-> ret, err |-> "none"]
PlainRaise(d, e) == [d |-> d, ret |-> None, err |-> e]

PlainSetItem(d, k, v) ==
    IF ~Hashable(k) THEN PlainRaise(d, "TypeError") ELSE PlainOk(DictSet(d, k, v), None)
PlainDelItem(d, k) ==
    IF ~Hashable(k) THEN PlainRaise(d, "TypeError")
    ELSE IF DictHas(d, k) THEN PlainOk(DictDel(d, k), None) ELSE PlainRaise(d, "KeyError")
PlainGetItem(d, k) ==
    IF ~Hashable(k) THEN PlainRaise(d, "TypeError")
    ELSE IF DictHas(d, k) THEN PlainOk(d, <<DictGet(d, k, 0)>>) ELSE PlainRaise(d, "KeyError")
PlainGet(d, k, default) == PlainOk(d, <<DictGet(d, k, default)>>)
PlainPop(d, k) ==
    IF DictHas(d, k) THEN PlainOk(DictDel(d, k), <<DictGet(d, k, 0)>>)
                     ELSE PlainRaise(d, "KeyError")
PlainPopDefault(d, k, default) ==
    IF DictHas(d, k) THEN PlainPop(d, k) ELSE PlainOk(d, <<default>>)
PlainSetDefault(d, k, default) ==
    IF DictHas(d, k) THEN PlainOk(d, <<DictGet(d, k, 0)>>)
                     ELSE PlainOk(DictSet(d, k, default), <<default>>)
RECURSIVE PlainSetAll(_, _)
PlainSetAll(d, pairs) ==
    IF Len(pairs) = 0 THEN d
    ELSE PlainSetAll(DictSet(d, pairs[1][1], pairs[1][2]), Tail(pairs))
PlainUpdate(d, other, kwds) == PlainOk(PlainSetAll(PlainSetAll(d, other), kwds), None)
PlainClear(d) == PlainOk(<<>>, None)

\* ----------------------------------------------------------------- inputs
Pairs == Keys \X Values
RECURSIVE SeqsUpTo(_, _)
SeqsUpTo(S, n) ==
    IF n = 0 THEN {<<>>}
    ELSE LET shorter == SeqsUpTo(S, n - 1) IN
         shorter \cup {Append(q, x) : q \in {t \in shorter : Len(t) = n - 1}, x \in S}
DistinctKeys(pairs) == \A i, j \in 1..Len(pairs) : pairs[i][1] = pairs[j][1] => i = j
\* update(other, **kwds): other is any iterable of pairs, kwds is a dict
Sources ==
    {s \in SeqsUpTo(Pairs, MaxSrcLen) \X SeqsUpTo(Pairs, MaxSrcLen) :
        Len(s[1]) + Len(s[2]) <= MaxSrcLen /\ DistinctKeys(s[2])}

\* ---------------------------------------------------------------- actions
Empty == [dicts |-> [r \in Refs |-> <<>>], lists |-> [r \in Refs |-> <<>>],
          rd |-> [n \in {} |-> 0]]

\* The call's outcome on the instance (r) and on the standard dict (p).
Apply(op, c, r, p) ==
    /\ dicts' = r.h.dicts
    /\ lists' = r.h.lists
    /\ rd' = r.h.rd
    /\ result' = [op |-> op, ret |-> r.ret, err |-> r.err]
    /\ plain' = [n \in DOMAIN r.h.rd |-> IF n = c THEN p.d ELSE plain[n]]
    /\ presult' = [ret |-> p.ret, err |-> p.err]

\* The same call has no counterpart on a standard dict: only its effect is mirrored.
Mirror(r, d) == [d |-> d, ret |-> r.ret, err |-> r.err]

\* No call in progress: no local variables.
NoReg == [key |-> 0, val |-> 0, i |-> -1, move |-> <<>>]

\* The state once the constructor call r has returned the instance c1; the
\* standard dict is built from the same arguments.
Constructed(r, d) ==
    /\ dicts = r.h.dicts
    /\ lists = r.h.lists
    /\ rd = r.h.rd
    /\ result = [op |-> "init", ret |-> r.ret, err |-> r.err]
    /\ plain = [n \in {"c1"} |-> d]
    /\ presult = [ret |-> None, err |-> "none"]
    /\ nops = 0
    /\ hist = [inserted |-> {}, added |-> 0, removed |-> 0]
    /\ pc = "idle"
    /\ reg = NoReg
    /\ locking = FALSE

\* c1 = RandomDict(), RandomDict(other, **kwds) or RandomDict.fromkeys(keys, value)
Init ==
    \/ \E s \in Sources :
          Constructed(Construct(Empty, "c1", s[1], s[2]), PlainUpdate(<<>>, s[1], s[2]).d)
    \/ \E keys \in SeqsUpTo(Keys, MaxSrcLen), v \in Values :
          Constructed(FromKeys(Empty, "c1", keys, v),
                      PlainSetAll(<<>>, [j \in 1..Len(keys) |-> <<keys[j], v>>]))

SetItemStep(c, k, v) ==
    Apply("setitem", c, SetItem(Cur, c, k, v), PlainSetItem(plain[c], k, v))
DelItemStep(c, k) ==
    Apply("delitem", c, DelItem(Cur, c, k), PlainDelItem(plain[c], k))
GetItemStep(c, k) ==
    Apply("getitem", c, GetItem(Cur, c, k), PlainGetItem(plain[c], k))
GetStep(c, k, default) ==
    Apply("get", c, Get(Cur, c, k, default), PlainGet(plain[c], k, default))
PopStep(c, k) ==
    Apply("pop", c, Pop(Cur, c, k), PlainPop(plain[c], k))
PopDefaultStep(c, k, default) ==
    Apply("popdefault", c, PopDefault(Cur, c, k, default), PlainPopDefault(plain[c], k, default))
SetDefaultStep(c, k, default) ==
    Apply("setdefault", c, SetDefault(Cur, c, k, default), PlainSetDefault(plain[c], k, default))
UpdateStep(c, other, kwds) ==
    Apply("update", c, Update(Cur, c, other, kwds), PlainUpdate(plain[c], other, kwds))
ClearStep(c) ==
    Apply("clear", c, Clear(Cur, c), PlainClear(plain[c]))
\* popitem takes the first key of iter(self); the standard dict's popitem takes
\* the last, so the standard dict is made to drop the key that was popped.
PopItemStep(c) ==
    LET r == PopItem(Cur, c) IN
    Apply("popitem", c, r,
          Mirror(r, IF r.err = "none" THEN DictDel(plain[c], r.ret[1]) ELSE plain[c]))
LenStep(c) ==
    Apply("len", c, Ok(Cur, <<LenOf(Cur, c)>>), PlainOk(plain[c], <<Len(plain[c])>>))
\* list(c): a full iteration over the keys
IterStep(c) ==
    Apply("iter", c, Ok(Cur, Iter(Cur, c)), PlainOk(plain[c], DictIter(plain[c])))
\* random.randint draws i; on an empty instance random_key raises before drawing
Draws(c) == IF LenOf(Cur, c) = 0 THEN {0} ELSE RandintRange(Cur, c)
RandomKeyStep(c) ==
    \E i \in Draws(c) :
        LET r == RandomKey(Cur, c, i) IN Apply("random_key", c, r, Mirror(r, plain[c]))
RandomValueStep(c) ==
    \E i \in Draws(c) :
        LET r == RandomValue(Cur, c, i) IN Apply("random_value", c, r, Mirror(r, plain[c]))
RandomItemStep(c) ==
    \E i \in Draws(c) :
        LET r == RandomItem(Cur, c, i) IN Apply("random_item", c, r, Mirror(r, plain[c]))
\* d = d.copy()
RebindCopyStep(c) ==
    Apply("copy", c, Copy(Cur, c, c), PlainOk(plain[c], None))

\* c2 = c1.copy()
CopyStep ==
    /\ "c1" \in DOMAIN rd
    /\ LET r == Copy(Cur, "c1", "c2") IN
       /\ dicts' = r.h.dicts
       /\ lists' = r.h.lists
       /\ rd' = r.h.rd
       /\ result' = [op |-> "copy", ret |-> r.ret, err |-> r.err]
       /\ plain' = [n \in DOMAIN r.h.rd |-> plain["c1"]]
       /\ presult' = [ret |-> None, err |-> "none"]

Live == DOMAIN rd

\* One instance, every operation.
Next ==
    \/ UNCHANGED aux /\ \E c \in Live, k \in Keys, v \in Values : SetItemStep(c, k, v)
    \/ UNCHANGED aux /\ \E c \in Live, k \in Keys : DelItemStep(c, k)
    \/ UNCHANGED aux /\ \E c \in Live, k \in Keys : GetItemStep(c, k)
    \/ UNCHANGED aux /\ \E c \in Live, k \in Keys, v \in Values : GetStep(c, k, v)
    \/ UNCHANGED aux /\ \E c \in Live, k \in Keys : PopStep(c, k)
    \/ UNCHANGED aux /\ \E c \in Live, k \in Keys, v \in Values : PopDefaultStep(c, k, v)
    \/ UNCHANGED aux /\ \E c \in Live, k \in Keys, v \in Values : SetDefaultStep(c, k, v)
    \/ UNCHANGED aux /\ \E c \in Live, s \in SeqsUpTo(Pairs, MaxSrcLen) : UpdateStep(c, s, <<>>)
    \/ UNCHANGED aux /\ \E c \in Live : ClearStep(c)
    \/ UNCHANGED aux /\ \E c \in Live : PopItemStep(c)
    \/ UNCHANGED aux /\ \E c \in Live : LenStep(c)
    \/ UNCHANGED aux /\ \E c \in Live : IterStep(c)
    \/ UNCHANGED aux /\ \E c \in Live : RandomKeyStep(c)
    \/ UNCHANGED aux /\ \E c \in Live : RandomValueStep(c)
    \/ UNCHANGED aux /\ \E c \in Live : RandomItemStep(c)
    \/ UNCHANGED aux /\ \E c \in Live : RebindCopyStep(c)

Spec == Init /\ [][Next]_vars

\* Two instances, an original and its copy, for MaxCopyOps operations.
Tick == nops < MaxCopyOps /\ nops' = nops + 1 /\ UNCHANGED <<hist, pc, reg, locking>>
NextCopy ==
    \/ Tick /\ \E c \in Live, k \in Keys, v \in Values : SetItemStep(c, k, v)
    \/ Tick /\ \E c \in Live, k \in Keys : DelItemStep(c, k)
    \/ Tick /\ \E c \in Live : ClearStep(c)
    \/ Tick /\ CopyStep

\* c1 == c2
EqStep ==
    /\ Live = {"c1", "c2"}
    /\ Apply("eq", "c1", Eq(Cur, "c1", "c2"),
             PlainOk(plain["c1"], <<IF DictEq(plain["c1"], plain["c2"]) THEN 1 ELSE 0>>))

\* Two instances, the first built by the constructor, compared after
\* MaxCopyOps operations at most.
NextEq ==
    \/ Tick /\ \E c \in Live, k \in Keys, v \in Values : SetItemStep(c, k, v)
    \/ Tick /\ \E c \in Live, k \in Keys : DelItemStep(c, k)
    \/ Tick /\ CopyStep
    \/ Tick /\ EqStep

SpecEq == Init /\ [][NextEq]_vars

\* c1 = RandomDict()
InitEmpty == Constructed(Construct(Empty, "c1", <<>>, <<>>), <<>>)

SpecCopy == InitEmpty /\ [][NextCopy]_vars

\* clear(), one iteration of its loop at a time:
\*     try:
\*         while True: self.popitem()
\*     except KeyError: pass
\* pc is "idle" before the call, "clearing" inside the loop, "done" once
\* clear has returned, "failed" if another exception leaves it, and "used"
\* after the set that follows.
ClearTick ==
    pc = "idle" /\ nops < MaxClearOps /\ nops' = nops + 1 /\ UNCHANGED <<hist, pc, reg, locking>>

ClearBegin ==
    /\ pc = "idle"
    /\ pc' = "clearing"
    /\ UNCHANGED <<dicts, lists, rd, result, plain, presult, nops, hist, reg, locking>>

ClearIter ==
    /\ pc = "clearing"
    /\ \E r \in {PopItem(Cur, "c1")} :
       IF r.err = "none"
       THEN /\ Apply("clear", "c1", Ok(r.h, None), PlainOk(DictDel(plain["c1"], r.ret[1]), None))
            /\ pc' = "clearing"
            /\ hist' = [hist EXCEPT !.removed = @ + 1]
       ELSE /\ Apply("clear", "c1",
                     IF r.err = "KeyError" THEN Ok(r.h, None) ELSE r, PlainOk(plain["c1"], None))
            /\ pc' = IF r.err = "KeyError" THEN "done" ELSE "failed"
            /\ UNCHANGED hist
    /\ UNCHANGED <<nops, reg, locking>>

SetAfterClear ==
    /\ pc = "done"
    /\ \E k \in Keys, v \in Values : SetItemStep("c1", k, v)
    /\ pc' = "used"
    /\ UNCHANGED <<nops, hist, reg, locking>>

NextClear ==
    \/ ClearTick /\ \E k \in Keys, v \in Values : SetItemStep("c1", k, v)
    \/ ClearTick /\ \E k \in Keys : DelItemStep("c1", k)
    \/ ClearBegin
    \/ ClearIter
    \/ SetAfterClear

\* The loop of clear runs in the calling thread: it keeps taking iterations.
SpecClear == Init /\ [][NextClear]_vars /\ WF_vars(ClearIter)

\* A writer thread running __setitem__ and __delitem__ one statement at a
\* time, and a reader thread calling __getitem__, __len__ and random_key in
\* between.  pc is the writer's next statement and reg its local variables.
\* When the caller wraps every call in one lock (locking), the reader runs
\* only while the writer is between calls.
Observable == locking => pc = "idle"

UseLock ==
    /\ pc = "idle" /\ nops = 0 /\ ~locking
    /\ locking' = TRUE
    /\ UNCHANGED <<dicts, lists, rd, result, plain, presult, nops, hist, pc, reg>>

Heap(h) == dicts' = h.dicts /\ lists' = h.lists /\ rd' = h.rd

\* i = self._keys.get(key, -1); if i > -1:
SetLookup(k, v) ==
    /\ pc = "idle" /\ nops < MaxRaceOps
    /\ nops' = nops + 1
    /\ LET i == DictGet(KeysOf(Cur, "c1"), k, -1) IN
       /\ reg' = [key |-> k, val |-> v, i |-> i, move |-> <<>>]
       /\ pc' = IF i > -1 THEN "set_store" ELSE "set_count"
    /\ UNCHANGED <<dicts, lists, rd, result, plain, presult, hist, locking>>

\* self._values[i] = (key, val)
SetStore ==
    /\ pc = "set_store"
    /\ Heap(IF ListHas(ValuesOf(Cur, "c1"), reg.i)
            THEN WithValues(Cur, "c1", ListSet(ValuesOf(Cur, "c1"), reg.i, <<reg.key, reg.val>>))
            ELSE Cur)
    /\ plain' = [plain EXCEPT !["c1"] = DictSet(@, reg.key, reg.val)]
    /\ pc' = "idle" /\ reg' = NoReg
    /\ UNCHANGED <<result, presult, nops, hist, locking>>

\* self.last_index += 1; i = self.last_index
SetCount ==
    /\ pc = "set_count"
    /\ Heap(WithLastIndex(Cur, "c1", NewSlot(Cur, "c1")))
    /\ reg' = [reg EXCEPT !.i = NewSlot(Cur, "c1")]
    /\ pc' = "set_append"
    /\ UNCHANGED <<result, plain, presult, nops, hist, locking>>

\* self._values.append((key, val))
SetAppend ==
    /\ pc = "set_append"
    /\ Heap(WithValues(Cur, "c1", Append(ValuesOf(Cur, "c1"), <<reg.key, reg.val>>)))
    /\ pc' = "set_index"
    /\ UNCHANGED <<result, plain, presult, nops, hist, reg, locking>>

\* self._keys[key] = i
SetIndex ==
    /\ pc = "set_index"
    /\ Heap(WithKeys(Cur, "c1", DictSet(KeysOf(Cur, "c1"), reg.key, reg.i)))
    /\ plain' = [plain EXCEPT !["c1"] = DictSet(@, reg.key, reg.val)]
    /\ pc' = "idle" /\ reg' = NoReg
    /\ UNCHANGED <<result, presult, nops, hist, locking>>

\* i = self._keys[key], for a key that is present
DelLookup(k) ==
    /\ pc = "idle" /\ nops < MaxRaceOps
    /\ DictHas(KeysOf(Cur, "c1"), k)
    /\ nops' = nops + 1
    /\ reg' = [key |-> k, val |-> 0, i |-> DictGet(KeysOf(Cur, "c1"), k, -1), move |-> <<>>]
    /\ pc' = "del_pop"
    /\ UNCHANGED <<dicts, lists, rd, result, plain, presult, hist, locking>>

\* move_key, move_val = self._values.pop(); if i != self.last_index:
DelPop ==
    /\ pc = "del_pop"
    /\ LET l  == ValuesOf(Cur, "c1")
           h1 == WithValues(Cur, "c1", SubSeq(l, 1, Len(l) - 1))
       IN IF Len(l) = 0
          THEN Heap(Cur) /\ pc' = "idle" /\ reg' = NoReg
          ELSE /\ Heap(h1)
               /\ reg' = [reg EXCEPT !.move = l[Len(l)]]
               /\ pc' = IF MustRelocate(h1, "c1", reg.i) THEN "del_move" ELSE "del_count"
    /\ UNCHANGED <<result, plain, presult, nops, hist, locking>>

\* self._values[i] = (move_key, move_val)
DelMove ==
    /\ pc = "del_move"
    /\ IF ListHas(ValuesOf(Cur, "c1"), reg.i)
       THEN /\ Heap(WithValues(Cur, "c1", ListSet(ValuesOf(Cur, "c1"), reg.i, reg.move)))
            /\ pc' = "del_reindex" /\ UNCHANGED reg
       ELSE Heap(Cur) /\ pc' = "idle" /\ reg' = NoReg
    /\ UNCHANGED <<result, plain, presult, nops, hist, locking>>

\* self._keys[move_key] = i
DelReindex ==
    /\ pc = "del_reindex"
    /\ Heap(WithKeys(Cur, "c1", MoveIndex(KeysOf(Cur, "c1"), reg.move[1], reg.i)))
    /\ pc' = "del_count"
    /\ UNCHANGED <<result, plain, presult, nops, hist, reg, locking>>

\* self.last_index -= 1
DelCount ==
    /\ pc = "del_count"
    /\ Heap(WithLastIndex(Cur, "c1", LastIndex(Cur, "c1") - 1))
    /\ pc' = "del_unindex"
    /\ UNCHANGED <<result, plain, presult, nops, hist, reg, locking>>

\* del self._keys[key]
DelUnindex ==
    /\ pc = "del_unindex"
    /\ Heap(WithKeys(Cur, "c1", DictDel(KeysOf(Cur, "c1"), reg.key)))
    /\ plain' = [plain EXCEPT !["c1"] = DictDel(@, reg.key)]
    /\ pc' = "idle" /\ reg' = NoReg
    /\ UNCHANGED <<result, presult, nops, hist, locking>>

NextRace ==
    \/ UseLock
    \/ \E k \in Keys, v \in Values : SetLookup(k, v)
    \/ SetStore
    \/ SetCount
    \/ SetAppend
    \/ SetIndex
    \/ \E k \in Keys : DelLookup(k)
    \/ DelPop
    \/ DelMove
    \/ DelReindex
    \/ DelCount
    \/ DelUnindex
    \/ Observable /\ UNCHANGED aux /\ \E k \in Keys : GetItemStep("c1", k)
    \/ Observable /\ UNCHANGED aux /\ LenStep("c1")
    \/ Observable /\ UNCHANGED aux /\ RandomKeyStep("c1")

SpecRace == Init /\ [][NextRace]_vars

\* set, get and remove called with any key, hashable or not.
NextKeys ==
    \/ Tick /\ \E c \in Live, k \in AllKeys, v \in Values : SetItemStep(c, k, v)
    \/ Tick /\ \E c \in Live, k \in AllKeys : GetItemStep(c, k)
    \/ Tick /\ \E c \in Live, k \in AllKeys : DelItemStep(c, k)

SpecKeys == Init /\ [][NextKeys]_vars

\* An instance built by the constructor from a source and keyword bindings,
\* then updated from further sources, with removals in between.
NextBulk ==
    \/ Tick /\ \E c \in Live, s \in Sources : UpdateStep(c, s[1], s[2])
    \/ Tick /\ \E c \in Live, k \in Keys : DelItemStep(c, k)

SpecBulk == Init /\ [][NextBulk]_vars

\* A container that started empty, with a record of the calls made on it:
\* the keys ever passed to a set, the sets that found their key absent, and the
\* removals that returned.
CountTick == nops < MaxCountOps /\ nops' = nops + 1 /\ UNCHANGED <<pc, reg, locking>>

CountSetStep(k, v) ==
    /\ CountTick
    /\ SetItemStep("c1", k, v)
    /\ hist' = [hist EXCEPT !.inserted = @ \cup {k},
                            !.added = @ + (IF DictHas(KeysOf(Cur, "c1"), k) THEN 0 ELSE 1)]

CountDelStep(k) ==
    /\ CountTick
    /\ DelItemStep("c1", k)
    /\ hist' = [hist EXCEPT !.removed = @ + (IF DelItem(Cur, "c1", k).err = "none" THEN 1 ELSE 0)]

NextCount ==
    \/ \E k \in Keys, v \in Values : CountSetStep(k, v)
    \/ \E k \in Keys : CountDelStep(k)

SpecCount == InitEmpty /\ [][NextCount]_vars


\* ============================================================== properties
\* What a caller can observe of instance c in state h.
Contains(h, c, k) == GetItem(h, c, k).err # "KeyError"
Present(h, c) == {k \in Keys : Contains(h, c, k)}
\* The storage of instance c: Index, Slots and last_index.
Storage(h, c) == [keys |-> KeysOf(h, c), values |-> ValuesOf(h, c), last_index |-> LastIndex(h, c)]
\* The value the standard dict holds for k (0, no value, when k is absent).
PlainValue(c, k) == DictGet(plain[c], k, 0)
\* Some key's slot number differs from its place in the Index's enumeration:
\* an earlier removal has moved a last entry into a vacated slot.
Relocated(c) ==
    \E j \in 1..Len(KeysOf(Cur, c)) : KeysOf(Cur, c)[j][2] # j - 1

\* The keys of a sequence of pairs, and the value of the last pair for key k.
KeysIn(pairs) == {pairs[j][1] : j \in 1..Len(pairs)}
LastVal(pairs, k) ==
    pairs[CHOOSE j \in 1..Len(pairs) :
              pairs[j][1] = k /\ \A j2 \in (j + 1)..Len(pairs) : pairs[j2][1] # k][2]

\* I1 for instance c
I1(h, c) ==
    \A k \in DictKeys(KeysOf(h, c)) :
        LET p == DictGet(KeysOf(h, c), k, -1) IN
        /\ p + 1 \in 1..Len(ValuesOf(h, c))
        /\ ValuesOf(h, c)[p + 1][1] = k
\* I2 and I3 for instance c
I23(h, c) ==
    LET slots == {KeysOf(h, c)[j][2] : j \in 1..Len(KeysOf(h, c))} IN
    /\ LenOf(h, c) = Len(ValuesOf(h, c))
    /\ LenOf(h, c) = Len(KeysOf(h, c))
    /\ Cardinality(slots) = Len(KeysOf(h, c))
    /\ slots = 0..(LenOf(h, c) - 1)

\* C1: in every reachable state, for every key K of the Index of every live
\* instance, Index[K] is a valid position p of Slots and Slots[p] is the pair
\* (K, current value of K), the current value being the one a standard dict
\* driven by the same calls holds for K.
C1_IndexPointsAtEntry ==
    \A c \in Live :
        \A k \in DictKeys(KeysOf(Cur, c)) :
            LET p == DictGet(KeysOf(Cur, c), k, -1) IN
            /\ p + 1 \in 1..Len(ValuesOf(Cur, c))
            /\ ValuesOf(Cur, c)[p + 1] = <<k, PlainValue(c, k)>>
\* an update has acted on an instance in which an earlier removal left a key
\* in a slot other than the one it was appended at
C1_Witness ==
    /\ result.op = "update" /\ result.err = "none"
    /\ LenOf(Cur, "c1") >= 3
    /\ Relocated("c1")

\* C2: in every reachable state the reported length, the number of Slots
\* entries and the number of Index keys agree, and the slot numbers in the
\* Index are pairwise distinct and are exactly 0..count-1.
C2_DenseSlots ==
    \A c \in Live :
        LET slots == {KeysOf(Cur, c)[j][2] : j \in 1..Len(KeysOf(Cur, c))} IN
        /\ LenOf(Cur, c) = Len(ValuesOf(Cur, c))
        /\ LenOf(Cur, c) = Len(KeysOf(Cur, c))
        /\ Cardinality(slots) = Len(KeysOf(Cur, c))
        /\ slots = 0..(LenOf(Cur, c) - 1)
\* a pop has removed the first of three entries or more: the last entry now
\* sits in slot 0
C2_Witness ==
    /\ result.op = "pop" /\ result.err = "none"
    /\ LenOf(Cur, "c1") >= 2
    /\ Relocated("c1")

\* C3: after every step the instance and the standard dict driven by the same
\* set, remove, pop, setdefault, update and clear calls hold the same keys, the
\* same value for each key and the same length, and the last call succeeded or
\* failed on both alike (with the same return value).
StandardOps == {"setitem", "delitem", "pop", "popdefault", "setdefault", "update", "clear"}
C3_SameAsStandardDict ==
    \A c \in Live :
        /\ Present(Cur, c) = DictKeys(plain[c])
        /\ \A k \in Present(Cur, c) : GetItem(Cur, c, k).ret = <<PlainValue(c, k)>>
        /\ LenOf(Cur, c) = Len(plain[c])
        /\ result.op \in StandardOps => result.err = presult.err /\ result.ret = presult.ret
\* a pop of an absent key has failed on a non-empty instance
C3_Witness ==
    /\ result.op = "pop" /\ result.err = "KeyError" /\ presult.err = "KeyError"
    /\ LenOf(Cur, "c1") >= 1

\* C4: on a non-empty instance every integer random_key can draw is a position
\* of Slots, the key it returns is present, the keys it can return are exactly
\* the present keys, and random_value / random_item return the current value /
\* the (key, current value) of the drawn key.
C4_RandomKeyExactlyPresent ==
    \A c \in Live :
        LenOf(Cur, c) > 0 =>
            /\ \A i \in RandintRange(Cur, c) :
                  /\ i + 1 \in 1..Len(ValuesOf(Cur, c))
                  /\ RandomKey(Cur, c, i).err = "none"
                  /\ RandomKey(Cur, c, i).ret[1] \in DictKeys(plain[c])
                  /\ RandomValue(Cur, c, i).err = "none"
                  /\ RandomValue(Cur, c, i).ret = <<PlainValue(c, RandomKey(Cur, c, i).ret[1])>>
                  /\ RandomItem(Cur, c, i).err = "none"
                  /\ RandomItem(Cur, c, i).ret =
                        <<RandomKey(Cur, c, i).ret[1], PlainValue(c, RandomKey(Cur, c, i).ret[1])>>
            /\ {RandomKey(Cur, c, i).ret[1] : i \in RandintRange(Cur, c)} = DictKeys(plain[c])
\* random_key has returned a key after a removal relocated an entry
C4_Witness ==
    /\ result.op = "random_key" /\ result.err = "none"
    /\ Relocated("c1")
    /\ Len(plain["c1"]) >= 2

\* C5: in every reachable state, for every key k and value v: after set(k, v),
\* get(k) returns v, the length has grown by 1 if k was absent and by 0 if k
\* was present, and every other key maps to what it mapped to before.
C5_SetThenGet ==
    \A c \in Live : \A k \in Keys, v \in Values :
        LET r == SetItem(Cur, c, k, v) IN
        /\ r.err = "none"
        /\ GetItem(r.h, c, k).err = "none"
        /\ GetItem(r.h, c, k).ret = <<v>>
        /\ LenOf(r.h, c) = LenOf(Cur, c) + (IF Contains(Cur, c, k) THEN 0 ELSE 1)
        /\ \A k2 \in Keys \ {k} :
              /\ GetItem(r.h, c, k2).err = GetItem(Cur, c, k2).err
              /\ GetItem(r.h, c, k2).ret = GetItem(Cur, c, k2).ret
\* a set has acted on an instance holding two entries or more
C5_Witness ==
    /\ result.op = "setitem" /\ result.err = "none"
    /\ LenOf(Cur, "c1") >= 2

\* C6: in every reachable state, for every present key k (in the last slot, the
\* first slot, in between, or alone): after remove(k), get(k) fails with
\* KeyError, the length is 1 less, and every other key is present or absent as
\* before with the value it had.
C6_RemovePresent ==
    \A c \in Live : \A k \in Present(Cur, c) :
        LET r == DelItem(Cur, c, k) IN
        /\ r.err = "none"
        /\ GetItem(r.h, c, k).err = "KeyError"
        /\ LenOf(r.h, c) = LenOf(Cur, c) - 1
        /\ \A k2 \in Keys \ {k} :
              /\ GetItem(r.h, c, k2).err = GetItem(Cur, c, k2).err
              /\ GetItem(r.h, c, k2).ret = GetItem(Cur, c, k2).ret
\* a remove has taken the first of three entries: the last entry was moved
\* into slot 0 and two entries are left
C6_Witness ==
    /\ result.op = "delitem" /\ result.err = "none"
    /\ LenOf(Cur, "c1") = 2
    /\ Relocated("c1")
    /\ \E k \in Keys : ~Contains(Cur, "c1", k)

\* C7: in every reachable state, remove(k) of an absent key fails with KeyError
\* and leaves Index, Slots and the reported length as they were.
C7_RemoveAbsentUnchanged ==
    \A c \in Live : \A k \in Keys \ Present(Cur, c) :
        LET r == DelItem(Cur, c, k) IN
        /\ r.err = "KeyError"
        /\ r.h = Cur
\* a remove of an absent key has failed on a non-empty instance
C7_Witness ==
    /\ result.op = "delitem" /\ result.err = "KeyError"
    /\ Len(ValuesOf(Cur, "c1")) >= 1

\* C8: in every reachable state, get(k) of a present key returns the value
\* stored at k's slot (the value a standard dict holds for k); of an absent key
\* the throwing variant fails with KeyError and the default variant returns the
\* default; the state is unchanged.
C8_Lookup ==
    \A c \in Live : \A k \in Keys :
        LET r == GetItem(Cur, c, k) IN
        /\ r.h = Cur
        /\ IF DictHas(plain[c], k)
           THEN /\ r.err = "none"
                /\ r.ret = <<ValuesOf(Cur, c)[DictGet(KeysOf(Cur, c), k, -1) + 1][2]>>
                /\ r.ret = <<PlainValue(c, k)>>
                /\ \A v \in Values : Get(Cur, c, k, v) = r
           ELSE /\ r.err = "KeyError"
                /\ \A v \in Values : Get(Cur, c, k, v) = Ok(Cur, <<v>>)
\* a lookup with a default has returned the default for an absent key
C8_Witness ==
    /\ result.op = "get" /\ result.err = "none"
    /\ \E k \in Keys : ~DictHas(plain["c1"], k)
    /\ \E v \in Values : result.ret = <<v>> /\ \A k \in Keys : PlainValue("c1", k) # v
    /\ LenOf(Cur, "c1") >= 1

\* C9: in every reachable state where an instance is empty, random_key,
\* random_value, random_item, pop and popitem fail with KeyError (the exception
\* the code raises for an empty container), and the instance stays empty with
\* I1-I3 holding.
C9_EmptyFails ==
    \A c \in Live :
        LenOf(Cur, c) = 0 =>
            /\ \A i \in Draws(c) :
                  /\ RandomKey(Cur, c, i) = Raise(Cur, "KeyError")
                  /\ RandomValue(Cur, c, i) = Raise(Cur, "KeyError")
                  /\ RandomItem(Cur, c, i) = Raise(Cur, "KeyError")
            /\ \A k \in Keys : Pop(Cur, c, k) = Raise(Cur, "KeyError")
            /\ PopItem(Cur, c) = Raise(Cur, "KeyError")
            /\ Len(KeysOf(Cur, c)) = 0 /\ Len(ValuesOf(Cur, c)) = 0
            /\ I1(Cur, c) /\ I23(Cur, c)
\* random_key has failed on an instance emptied after use
C9_Witness ==
    /\ result.op = "random_key" /\ result.err = "KeyError"
    /\ LenOf(Cur, "c1") = 0

\* C10: once c2 = c1.copy() has run, the two instances share no dict and no
\* list object, and any set, remove or clear applied to one of them leaves the
\* other's Index, Slots and last_index unchanged.
C10_CopyIndependent ==
    Live = {"c1", "c2"} =>
        /\ rd["c1"].keys # rd["c2"].keys
        /\ rd["c1"].values # rd["c2"].values
        /\ \A c \in Live : \A o \in Live \ {c} :
              /\ \A k \in Keys, v \in Values :
                    Storage(SetItem(Cur, c, k, v).h, o) = Storage(Cur, o)
              /\ \A k \in Keys : Storage(DelItem(Cur, c, k).h, o) = Storage(Cur, o)
              /\ Storage(Clear(Cur, c).h, o) = Storage(Cur, o)
\* after the copy the two instances have been driven apart by a removal
C10_Witness ==
    /\ Live = {"c1", "c2"}
    /\ result.op = "delitem" /\ result.err = "none"
    /\ Present(Cur, "c1") # Present(Cur, "c2")
    /\ LenOf(Cur, "c1") >= 1 /\ LenOf(Cur, "c2") >= 1


\* C11: two instances compare equal exactly when they hold the same keys with
\* equal values, whatever their slot layout and history; a copy equals its
\* source right after copying; and from two equal instances, changing the value
\* of one shared key in either of them makes them unequal.
C11_EqualityIsByContent ==
    Live = {"c1", "c2"} =>
        LET e == Eq(Cur, "c1", "c2") IN
        /\ e.err = "none"
        /\ (e.ret = <<1>>) <=>
              /\ Present(Cur, "c1") = Present(Cur, "c2")
              /\ \A k \in Present(Cur, "c1") :
                    GetItem(Cur, "c1", k).ret = GetItem(Cur, "c2", k).ret
        /\ result.op = "copy" => e.ret = <<1>>
        /\ e.ret = <<1>> =>
              \A c \in Live : \A k \in Present(Cur, c) :
                  \A v \in Values \ {GetItem(Cur, c, k).ret[1]} :
                      Eq(SetItem(Cur, c, k, v).h, "c1", "c2").ret = <<0>>
\* two instances with different slot layouts have compared equal
C11_Witness ==
    /\ Live = {"c1", "c2"}
    /\ result.op = "eq" /\ result.err = "none" /\ result.ret = <<1>>
    /\ LenOf(Cur, "c1") >= 2
    /\ ValuesOf(Cur, "c1") # ValuesOf(Cur, "c2")


\* C12 as stated: on a container that started empty, after any sequence of
\* sets and removals the length is the number of distinct keys ever inserted
\* minus the number of removals that succeeded.  (A key set, removed and set
\* again is one distinct key and one removal, yet the length is 1.)
C12_Original ==
    LenOf(Cur, "c1") = Cardinality(hist.inserted) - hist.removed
\* C12 amended: the length is the number of sets that found their key absent
\* minus the number of removals that succeeded.
C12_LengthCountsInsertions ==
    LenOf(Cur, "c1") = hist.added - hist.removed
\* a key has been set, removed and set again
C12_Witness ==
    /\ hist.added > Cardinality(hist.inserted)
    /\ hist.removed >= 1
    /\ result.op = "setitem"
    /\ LenOf(Cur, "c1") = 1


\* C13: in every reachable state a full iteration over the keys, over the
\* values and over the items produces exactly length entries; the keys
\* produced are the present keys, each once, and no absent key; and every
\* (k, v) produced by the iteration over items satisfies get(k) = v.
C13_IterationIsExact ==
    \A c \in Live :
        LET ks == Iter(Cur, c) IN
        /\ ItemsErr(Cur, c) = "none"
        /\ Len(ks) = LenOf(Cur, c)
        /\ Len(ValuesList(Cur, c)) = LenOf(Cur, c)
        /\ Len(Items(Cur, c)) = LenOf(Cur, c)
        /\ {ks[j] : j \in 1..Len(ks)} = Present(Cur, c)
        /\ \A i, j \in 1..Len(ks) : ks[i] = ks[j] => i = j
        /\ \A j \in 1..Len(ks) :
              /\ Items(Cur, c)[j][1] = ks[j]
              /\ ValuesList(Cur, c)[j] = Items(Cur, c)[j][2]
              /\ Get(Cur, c, ks[j], 0).ret = <<Items(Cur, c)[j][2]>>
\* an iteration has produced two keys of an instance that has lost a key and
\* whose slots have been rearranged
C13_Witness ==
    /\ result.op = "iter" /\ Len(result.ret) = 2
    /\ Relocated("c1")
    /\ Present(Cur, "c1") # Keys


\* C14: bulk population is last-writer-wins.  After update(other, **kwds) on
\* any content, and after construction from a source followed by keyword
\* bindings (the source being a pair sequence that may repeat keys), a key of
\* the keyword bindings maps to their value, any other key of the source maps
\* to the value of its last pair, a key of the earlier content alone keeps its
\* value, and no other key is present.
C14_LastWriterWins ==
    \A s \in Sources :
        LET other == s[1]
            kwds == s[2]
            Written(k) == IF k \in KeysIn(kwds) THEN LastVal(kwds, k) ELSE LastVal(other, k)
            n == Construct(Empty, "c1", other, kwds)
        IN  /\ n.err = "none"
            /\ Present(n.h, "c1") = KeysIn(other) \cup KeysIn(kwds)
            /\ \A k \in Present(n.h, "c1") : GetItem(n.h, "c1", k).ret = <<Written(k)>>
            /\ \A c \in Live :
                  LET r == Update(Cur, c, other, kwds) IN
                  /\ r.err = "none"
                  /\ Present(r.h, c) = Present(Cur, c) \cup KeysIn(other) \cup KeysIn(kwds)
                  /\ \A k \in Present(r.h, c) :
                        GetItem(r.h, c, k).ret =
                            IF k \in KeysIn(other) \cup KeysIn(kwds) THEN <<Written(k)>>
                            ELSE GetItem(Cur, c, k).ret
\* an update has run on an instance whose slots had been rearranged by a
\* removal, and the instance holds every key
C14_Witness ==
    /\ result.op = "update" /\ result.err = "none"
    /\ Relocated("c1")
    /\ Present(Cur, "c1") = Keys
    /\ nops >= 2


\* C15: no operation fails part-way.  A set with a key that cannot be hashed
\* raises TypeError with the Index, the slots and the length as they were;
\* every set, get or remove that fails leaves the whole state as it was, and
\* every one that succeeds ends with I1, I2 and I3 holding.
C15_NoPartialFailure ==
    \A c \in Live :
        LET AllOrNothing(r) ==
                IF r.err # "none" THEN r.h = Cur ELSE I1(r.h, c) /\ I23(r.h, c)
        IN  /\ \A v \in Values : SetItem(Cur, c, Unhashable, v) = Raise(Cur, "TypeError")
            /\ \A k \in AllKeys :
                  /\ \A v \in Values : AllOrNothing(SetItem(Cur, c, k, v))
                  /\ AllOrNothing(GetItem(Cur, c, k))
                  /\ AllOrNothing(DelItem(Cur, c, k))
\* a set with an unhashable key has failed on an instance holding two keys
C15_Witness ==
    /\ result.op = "setitem" /\ result.err = "TypeError"
    /\ LenOf(Cur, "c1") = 2
    /\ nops >= 2


\* C16: clear, which removes one item at a time until the container is empty,
\* terminates from every reachable state; when it has returned the length is
\* 0 and the Index and the slots are empty; and the set(k, v) that follows
\* places k at slot 0 with length 1.
C16_ClearTerminatesEmpty ==
    /\ [](pc = "done" =>
            /\ LenOf(Cur, "c1") = 0
            /\ KeysOf(Cur, "c1") = <<>>
            /\ ValuesOf(Cur, "c1") = <<>>)
    /\ [](pc = "used" =>
            /\ LenOf(Cur, "c1") = 1
            /\ \E k \in Keys :
                  /\ KeysOf(Cur, "c1") = <<(<<k, 0>>)>>
                  /\ Len(ValuesOf(Cur, "c1")) = 1
                  /\ ValuesOf(Cur, "c1")[1][1] = k
                  /\ GetItem(Cur, "c1", k).ret = <<ValuesOf(Cur, "c1")[1][2]>>)
    /\ [](pc # "failed")
    /\ (pc = "clearing" ~> pc = "done")
\* clear has removed three items one by one and returned, and a key has been
\* set afterwards
C16_Witness ==
    /\ pc = "used"
    /\ hist.removed = 3
    /\ result.op = "setitem"


\* C17: between the statements of a set of a new key or of a remove, the
\* state a reader can observe violates I1-I3: once the count is raised and
\* before the append, the length differs from the number of slots and
\* random_key drawing the last position raises IndexError; once the entry is
\* appended and before the Index is written, a slot holds a key the Index does
\* not map; once the last entry is popped and before it is stored again, the
\* Index maps its key outside the slots.  When every call runs under one lock,
\* every state a reader can observe satisfies I1-I3 and no read raises
\* IndexError.
C17_TornStateUnlessLocked ==
    /\ pc = "set_append" =>
          /\ ~I23(Cur, "c1")
          /\ LenOf(Cur, "c1") # Len(ValuesOf(Cur, "c1"))
          /\ RandomKey(Cur, "c1", LastIndex(Cur, "c1")).err = "IndexError"
    /\ pc = "set_index" =>
          /\ ~I23(Cur, "c1")
          /\ \E j \in 1..Len(ValuesOf(Cur, "c1")) :
                ~DictHas(KeysOf(Cur, "c1"), ValuesOf(Cur, "c1")[j][1])
    /\ pc = "del_move" =>
          /\ ~I1(Cur, "c1")
          /\ GetItem(Cur, "c1", reg.move[1]).err = "IndexError"
    /\ locking =>
          /\ result.err # "IndexError"
          /\ Observable =>
                /\ I1(Cur, "c1") /\ I23(Cur, "c1")
                /\ \A i \in Draws("c1") : RandomKey(Cur, "c1", i).err # "IndexError"
                /\ \A k \in Keys : GetItem(Cur, "c1", k).err # "IndexError"
\* without a lock, a reader has called random_key between the count update
\* and the append of the first set and it has raised IndexError
C17_Witness ==
    /\ ~locking
    /\ nops = 1 /\ pc = "set_append"
    /\ result.op = "random_key" /\ result.err = "IndexError"


\* C18: removing a present key k is swap-with-last.  If k's slot p is not the
\* last position, the entry of the last position is moved to p and the Index
\* of its key is set to p; if p is the last position nothing is relocated; in
\* both cases every other key (other than k and the moved one) keeps its slot
\* and its value, and the moved key keeps its value.
C18_RemoveSwapsWithLast ==
    \A c \in Live : \A k \in Present(Cur, c) :
        LET r    == DelItem(Cur, c, k)
            old  == ValuesOf(Cur, c)
            new  == ValuesOf(r.h, c)
            last == LastIndex(Cur, c)
            p    == DictGet(KeysOf(Cur, c), k, -1)
            Slot(h, x) == DictGet(KeysOf(h, c), x, -1)
            moved == IF p # last THEN {old[last + 1][1]} ELSE {}
        IN  /\ r.err = "none"
            /\ p # last =>
                  /\ new[p + 1] = old[last + 1]
                  /\ Slot(r.h, old[last + 1][1]) = p
                  /\ GetItem(r.h, c, old[last + 1][1]) = Ok(r.h, <<old[last + 1][2]>>)
            /\ p = last => new = SubSeq(old, 1, last)
            /\ \A x \in Present(Cur, c) \ ({k} \cup moved) :
                  /\ Slot(r.h, x) = Slot(Cur, x)
                  /\ new[Slot(Cur, x) + 1] = old[Slot(Cur, x) + 1]
                  /\ GetItem(r.h, c, x).ret = GetItem(Cur, c, x).ret
\* a removal has moved the entry of the key the Index enumerates last into
\* slot 0, and another key is still held
C18_Witness ==
    /\ result.op = "delitem" /\ result.err = "none"
    /\ Len(KeysOf(Cur, "c1")) = 2
    /\ KeysOf(Cur, "c1")[2][2] = 0

\* C19: set(k, v) on a present key overwrites in place: k keeps its slot, the
\* slots do not grow; set on a new key appends the entry at the position equal
\* to the previous count; in both cases every other key keeps its slot and its
\* value.
C19_SetInPlaceOrAppend ==
    \A c \in Live : \A k \in Keys : \A v \in Values :
        LET r   == SetItem(Cur, c, k, v)
            old == ValuesOf(Cur, c)
            new == ValuesOf(r.h, c)
            Slot(h, x) == DictGet(KeysOf(h, c), x, -1)
        IN  /\ r.err = "none"
            /\ k \in Present(Cur, c) =>
                  /\ Slot(r.h, k) = Slot(Cur, k)
                  /\ Len(new) = Len(old)
                  /\ LenOf(r.h, c) = LenOf(Cur, c)
                  /\ new[Slot(Cur, k) + 1] = <<k, v>>
            /\ k \notin Present(Cur, c) =>
                  /\ Slot(r.h, k) = LenOf(Cur, c)
                  /\ Len(new) = Len(old) + 1
                  /\ new[LenOf(Cur, c) + 1] = <<k, v>>
            /\ \A x \in Present(Cur, c) \ {k} :
                  /\ Slot(r.h, x) = Slot(Cur, x)
                  /\ new[Slot(Cur, x) + 1] = old[Slot(Cur, x) + 1]
                  /\ GetItem(r.h, c, x).ret = GetItem(Cur, c, x).ret
\* a set has run on an instance that holds every key in slots rearranged by
\* an earlier removal
C19_Witness ==
    /\ result.op = "setitem" /\ result.err = "none"
    /\ Present(Cur, "c1") = Keys
    /\ Relocated("c1")


\* C20 as stated: iteration yields the keys in the order of the Index's
\* enumeration, and after a removal that relocates the last entry into the
\* vacated slot the iteration order differs from the insertion order of the
\* surviving keys (the order in which a standard dict driven by the same calls
\* holds them).
C20_Original ==
    \A c \in Live :
        /\ Iter(Cur, c) = [j \in 1..Len(KeysOf(Cur, c)) |-> KeysOf(Cur, c)[j][1]]
        /\ \A k \in Present(Cur, c) :
              DictGet(KeysOf(Cur, c), k, -1) # LastIndex(Cur, c) =>
                  Iter(DelItem(Cur, c, k).h, c) # DictIter(DictDel(plain[c], k))
\* C20 amended: iteration yields the keys in the order of the Index's
\* enumeration, and that order is the insertion order of the surviving keys in
\* every reachable state and after every removal, a relocating one included:
\* re-indexing the moved key leaves its place in the Index's enumeration.
C20_IterationKeepsInsertionOrder ==
    \A c \in Live :
        /\ Iter(Cur, c) = [j \in 1..Len(KeysOf(Cur, c)) |-> KeysOf(Cur, c)[j][1]]
        /\ Iter(Cur, c) = DictIter(plain[c])
        /\ \A k \in Present(Cur, c) :
              Iter(DelItem(Cur, c, k).h, c) = DictIter(DictDel(plain[c], k))
\* a removal has relocated an entry: the slots of the keys held are no longer
\* in the order of the iteration
C20_Witness ==
    /\ result.op \in {"delitem", "pop"} /\ result.err = "none"
    /\ LenOf(Cur, "c1") >= 2
    /\ Iter(Cur, "c1") # [j \in 1..Len(ValuesOf(Cur, "c1")) |-> ValuesOf(Cur, "c1")[j][1]]

====
